---- MODULE Spec2Model ----
(***************************************************************************)
(* A model of setuptools/wheel.py: the Wheel class (tag compatibility,     *)
(* .dist-info discovery, conversion of a wheel archive into an egg         *)
(* directory) and the unpack() helper that merges one directory tree into  *)
(* another.                                                                *)
(*                                                                         *)
(* Strings are sequences of one-character strings, so that split,          *)
(* endswith, startswith, dirname, canonicalize_name and sorted() are       *)
(* computed character by character as Python computes them.  A path is     *)
(* such a string with "/" separators, relative to the working directory.   *)
(* The filesystem is a record [dirs, files]: the set of directory paths    *)
(* and a function from file paths to file contents (POSIX semantics, no    *)
(* symbolic links).                                                        *)
(***************************************************************************)
EXTENDS Integers, Sequences, FiniteSets, TLC

VARIABLES
    pc,               \* position of the running call
    zf,               \* the archive handle: "unopened", "open" or "closed"
    opens,            \* how many times the archive was opened
    fs,               \* the filesystem
    fs0,              \* the filesystem when the call started
    self,             \* the Wheel object's fields
    archive,          \* zf.namelist(): the archive's member names, in order
    wheel_version,    \* the Wheel-Version field of the WHEEL record
    dist,             \* what the pkg_resources Distribution reports
    dist_info,        \* the discovered metadata directory
    err,              \* the exception raised, "" when none
    install_requires, \* line 133
    extras_require,   \* lines 134-141
    scripts_listed,   \* os.listdir(dist_data_scripts) as read at line 166
    subdir_i,         \* index of the loop of lines 177-181
    supported_tags,   \* pep425tags.get_supported()
    result,           \* the value returned by the call
    src_dir,          \* unpack's first argument
    dst_dir,          \* unpack's second argument
    stack,            \* os.walk: the directories still to be listed
    visited           \* the directories the first walk of unpack listed

vars == <<pc, zf, opens, fs, fs0, self, archive, wheel_version, dist, dist_info,
          err, install_requires, extras_require, scripts_listed, subdir_i,
          supported_tags, result, src_dir, dst_dir, stack, visited>>

-----------------------------------------------------------------------------
(* Characters and strings                                                  *)

\* The characters the model uses, in ASCII order.
ASCII == <<" ","-",".","/","0","1","2","3","4","5","6","7","8","9",";","<","=",">",
           "A","B","C","D","E","F","G","H","I","J","K","L","M","N","O","P","Q","R",
           "S","T","U","V","W","X","Y","Z","_",
           "a","b","c","d","e","f","g","h","i","j","k","l","m","n","o","p","q","r",
           "s","t","u","v","w","x","y","z">>

UPPER == <<"A","B","C","D","E","F","G","H","I","J","K","L","M","N","O","P","Q","R",
           "S","T","U","V","W","X","Y","Z">>

LOWER == <<"a","b","c","d","e","f","g","h","i","j","k","l","m","n","o","p","q","r",
           "s","t","u","v","w","x","y","z">>

DIGITS == <<"0","1","2","3","4","5","6","7","8","9">>

Ord(c) == CHOOSE i \in 1..Len(ASCII) : ASCII[i] = c

IsDigit(c) == \E i \in 1..Len(DIGITS) : DIGITS[i] = c

DigitValue(c) == (CHOOSE i \in 1..Len(DIGITS) : DIGITS[i] = c) - 1

\* str.lower() on one character
LowerChar(c) ==
    IF \E i \in 1..Len(UPPER) : UPPER[i] = c
    THEN LOWER[CHOOSE i \in 1..Len(UPPER) : UPPER[i] = c]
    ELSE c

StartsWith(s, p) == Len(p) <= Len(s) /\ SubSeq(s, 1, Len(p)) = p

EndsWith(s, p) == Len(p) <= Len(s) /\ SubSeq(s, Len(s) - Len(p) + 1, Len(s)) = p

\* Python's comparison of two str values: s < t
RECURSIVE StrLess(_, _)
StrLess(s, t) ==
    IF t = <<>> THEN FALSE
    ELSE IF s = <<>> THEN TRUE
    ELSE IF Head(s) = Head(t) THEN StrLess(Tail(s), Tail(t))
    ELSE Ord(Head(s)) < Ord(Head(t))

\* s.split(sep) for a one-character separator
RECURSIVE SplitFrom(_, _, _)
SplitFrom(s, sep, cur) ==
    IF s = <<>> THEN <<cur>>
    ELSE IF Head(s) = sep THEN <<cur>> \o SplitFrom(Tail(s), sep, <<>>)
    ELSE SplitFrom(Tail(s), sep, Append(cur, Head(s)))

Split(s, sep) == SplitFrom(s, sep, <<>>)

\* sorted(xs) for a list of str
RECURSIVE Insert(_, _)
Insert(x, xs) ==
    IF xs = <<>> THEN <<x>>
    ELSE IF StrLess(x, Head(xs)) THEN <<x>> \o xs
    ELSE <<Head(xs)>> \o Insert(x, Tail(xs))

RECURSIVE Sorted(_)
Sorted(xs) == IF xs = <<>> THEN <<>> ELSE Insert(Head(xs), Sorted(Tail(xs)))

Range(xs) == {xs[i] : i \in 1..Len(xs)}

Reverse(xs) == [i \in 1..Len(xs) |-> xs[Len(xs) + 1 - i]]

-----------------------------------------------------------------------------
(* Paths                                                                   *)

SEP == "/"

\* index of the last "/" of p, 0 when there is none
LastSep(p) ==
    IF \E i \in 1..Len(p) : p[i] = SEP
    THEN CHOOSE i \in 1..Len(p) : p[i] = SEP /\ \A j \in (i+1)..Len(p) : p[j] # SEP
    ELSE 0

\* posixpath.dirname, on paths that hold no doubled or trailing "/"
Dirname(p) == IF LastSep(p) = 0 THEN <<>> ELSE SubSeq(p, 1, LastSep(p) - 1)

Basename(p) == SubSeq(p, LastSep(p) + 1, Len(p))

\* os.path.join(a, b), b relative; join(a, '.', b) names the same file as join(a, b)
Join(a, b) == IF a = <<>> THEN b ELSE IF b = <<>> THEN a ELSE a \o <<SEP>> \o b

\* p is strictly below directory d
Under(p, d) == Len(p) > Len(d) + 1 /\ SubSeq(p, 1, Len(d) + 1) = d \o <<SEP>>

\* os.path.relpath(p, start) for p = start or p below start ('.' is the empty path)
Relpath(p, start) == IF p = start THEN <<>> ELSE SubSeq(p, Len(start) + 2, Len(p))

RECURSIVE Ancestors(_)
Ancestors(p) ==
    IF Dirname(p) = <<>> THEN {} ELSE {Dirname(p)} \cup Ancestors(Dirname(p))

-----------------------------------------------------------------------------
(* The filesystem                                                          *)

EmptyFS == [dirs |-> {}, files |-> <<>>]

Files(f) == DOMAIN f.files

IsDir(f, p) == p \in f.dirs

IsFile(f, p) == p \in Files(f)

\* os.path.exists
Exists(f, p) == IsDir(f, p) \/ IsFile(f, p)

Nodes(f) == f.dirs \cup Files(f)

\* the working directory itself always exists
ParentOk(f, p) == Dirname(p) = <<>> \/ IsDir(f, Dirname(p))

Children(f, d) == {p \in Nodes(f) : Dirname(p) = d}

\* os.listdir and os.walk return names in the filesystem's order, which is
\* arbitrary: every ordering of the names is a possible listing
Orders(S) == {xs \in [1..Cardinality(S) -> S] :
                 \A i, j \in 1..Cardinality(S) : i # j => xs[i] # xs[j]}

FileNames(f, d) == {Basename(p) : p \in {q \in Files(f) : Dirname(q) = d}}

DirNames(f, d) == {Basename(p) : p \in {q \in f.dirs : Dirname(q) = d}}

ListFiles(f, d) == Orders(FileNames(f, d))

ListDirs(f, d) == Orders(DirNames(f, d))

Ok(f) == [ok |-> TRUE, fs |-> f, err |-> ""]

Fail(f, e) == [ok |-> FALSE, fs |-> f, err |-> e]

WithFile(f, p, c) ==
    [f EXCEPT !.files = [q \in Files(f) \cup {p} |-> IF q = p THEN c ELSE f.files[q]]]

WithoutFile(f, p) == [f EXCEPT !.files = [q \in Files(f) \ {p} |-> f.files[q]]]

\* os.mkdir
Mkdir(f, p) ==
    IF Exists(f, p) THEN Fail(f, "FileExistsError")
    ELSE IF ~ParentOk(f, p) THEN Fail(f, "FileNotFoundError")
    ELSE Ok([f EXCEPT !.dirs = @ \cup {p}])

\* os.rmdir
Rmdir(f, p) ==
    IF IsFile(f, p) THEN Fail(f, "NotADirectoryError")
    ELSE IF ~IsDir(f, p) THEN Fail(f, "FileNotFoundError")
    ELSE IF Children(f, p) # {} THEN Fail(f, "OSError")
    ELSE Ok([f EXCEPT !.dirs = @ \ {p}])

\* os.unlink
Unlink(f, p) ==
    IF IsDir(f, p) THEN Fail(f, "IsADirectoryError")
    ELSE IF ~IsFile(f, p) THEN Fail(f, "FileNotFoundError")
    ELSE Ok(WithoutFile(f, p))

\* open(p, 'w').write(c)
WriteFile(f, p, c) ==
    IF IsDir(f, p) THEN Fail(f, "IsADirectoryError")
    ELSE IF ~ParentOk(f, p) THEN
        Fail(f, IF Exists(f, Dirname(p)) \/ \E a \in Ancestors(p) : IsFile(f, a)
                THEN "NotADirectoryError" ELSE "FileNotFoundError")
    ELSE Ok(WithFile(f, p, c))

\* the path that p, at or below old, has once old is renamed to new
Moved(p, old, new) == IF p = old THEN new ELSE new \o SubSeq(p, Len(old) + 1, Len(p))

AtOrUnder(p, d) == p = d \/ Under(p, d)

\* os.rename
Rename(f, old, new) ==
    IF ~Exists(f, old) THEN Fail(f, "FileNotFoundError")
    ELSE IF ~ParentOk(f, new) THEN
        Fail(f, IF \E a \in Ancestors(new) : IsFile(f, a)
                THEN "NotADirectoryError" ELSE "FileNotFoundError")
    ELSE IF old = new THEN Ok(f)
    ELSE IF Under(old, new) THEN Fail(f, "OSError")
    ELSE IF IsFile(f, old) THEN
        IF IsDir(f, new) THEN Fail(f, "IsADirectoryError")
        ELSE Ok(WithFile(WithoutFile(f, old), new, f.files[old]))
    ELSE IF IsFile(f, new) THEN Fail(f, "NotADirectoryError")
    ELSE IF Under(new, old) THEN Fail(f, "OSError")
    ELSE IF IsDir(f, new) /\ Children(f, new) # {} THEN Fail(f, "OSError")
    ELSE LET keptF == {q \in Files(f) : ~Under(q, old)}
             movF  == {q \in Files(f) : Under(q, old)}
         IN Ok([dirs  |-> {q \in f.dirs : ~AtOrUnder(q, old)}
                          \cup {Moved(q, old, new) : q \in {r \in f.dirs : AtOrUnder(r, old)}},
                files |-> [q \in keptF \cup {Moved(r, old, new) : r \in movF} |->
                             IF \E r \in movF : Moved(r, old, new) = q
                             THEN f.files[CHOOSE r \in movF : Moved(r, old, new) = q]
                             ELSE f.files[q]]])

\* os.makedirs(p), called only when p does not exist
RECURSIVE Makedirs(_, _)
Makedirs(f, p) ==
    IF p = <<>> \/ IsDir(f, p) THEN Ok(f)
    ELSE IF IsFile(f, p) THEN Fail(f, "FileExistsError")
    ELSE LET up == Makedirs(f, Dirname(p))
         IN IF ~up.ok THEN Fail(f, IF up.err = "FileExistsError"
                                   THEN "NotADirectoryError" ELSE up.err)
            ELSE Mkdir(up.fs, p)

\* the loop of os.removedirs: rmdir upwards while it succeeds
RECURSIVE PruneUp(_, _)
PruneUp(f, p) ==
    IF p = <<>> THEN f
    ELSE LET r == Rmdir(f, p)
         IN IF r.ok THEN PruneUp(r.fs, Dirname(p)) ELSE f

\* os.renames(old, new): create new's parents, rename, then prune old's empty
\* parents (errors of the pruning are swallowed)
Renames(f, old, new) ==
    LET made == IF Dirname(new) # <<>> /\ ~Exists(f, Dirname(new))
                THEN Makedirs(f, Dirname(new)) ELSE Ok(f)
    IN IF ~made.ok THEN made
       ELSE LET r == Rename(made.fs, old, new)
            IN IF ~r.ok THEN r ELSE Ok(PruneUp(r.fs, Dirname(old)))

-----------------------------------------------------------------------------
(* unpack(src_dir, dst_dir), lines 33-52                                   *)

\* lines 37-40: move the files of dirpath
RECURSIVE MoveFiles(_, _, _, _)
MoveFiles(f, names, dirpath, dstpath) ==
    IF names = <<>> THEN Ok(f)
    ELSE LET r == Renames(f, Join(dirpath, Head(names)), Join(dstpath, Head(names)))
         IN IF ~r.ok THEN r ELSE MoveFiles(r.fs, Tail(names), dirpath, dstpath)

\* lines 41-48: the directories of dirpath, last first; one whose destination
\* does not exist is renamed and pruned from the walk, the others are kept
RECURSIVE MoveDirs(_, _, _, _)
MoveDirs(f, rnames, dirpath, dstpath) ==
    IF rnames = <<>> THEN [ok |-> TRUE, fs |-> f, err |-> "", kept |-> <<>>]
    ELSE LET d == Head(rnames) IN
         IF ~Exists(f, Join(dstpath, d))
         THEN LET r == Renames(f, Join(dirpath, d), Join(dstpath, d))
              IN IF ~r.ok THEN [ok |-> FALSE, fs |-> r.fs, err |-> r.err, kept |-> <<>>]
                 ELSE MoveDirs(r.fs, Tail(rnames), dirpath, dstpath)
         ELSE LET rest == MoveDirs(f, Tail(rnames), dirpath, dstpath)
              IN [rest EXCEPT !.kept = Append(@, d)]

\* lines 36-48: one turn of the loop, on the listing os.walk took of dirpath
WalkDir(f, dirpath, dstpath, filenames, dirnames) ==
    LET mf == MoveFiles(f, filenames, dirpath, dstpath)
    IN IF ~mf.ok THEN [ok |-> FALSE, fs |-> mf.fs, err |-> mf.err, kept |-> <<>>]
       ELSE MoveDirs(mf.fs, Reverse(dirnames), dirpath, dstpath)

\* lines 50-52: one turn of the cleanup loop
CleanupDir(f, dirpath) ==
    IF FileNames(f, dirpath) # {} THEN Fail(f, "AssertionError") ELSE Rmdir(f, dirpath)

\* the paths os.walk goes on to from dirpath: its kept directories, in order
Descend(dirpath, names) == [i \in 1..Len(names) |-> Join(dirpath, names[i])]

-----------------------------------------------------------------------------
(* Names the program fixes                                                 *)

DIST_INFO_SUFFIX == <<".","d","i","s","t","-","i","n","f","o">>

DATA_SUFFIX == <<".","d","a","t","a">>

PYC_SUFFIX == <<".","p","y","c">>

EGG_INFO == <<"E","G","G","-","I","N","F","O">>

METADATA == <<"M","E","T","A","D","A","T","A">>

PKG_INFO == <<"P","K","G","-","I","N","F","O">>

WHEEL == <<"W","H","E","E","L">>

REQUIRES_TXT == <<"r","e","q","u","i","r","e","s",".","t","x","t">>

SCRIPTS == <<"s","c","r","i","p","t","s">>

NAMESPACE_PACKAGES_TXT == <<"n","a","m","e","s","p","a","c","e","_","p","a","c","k","a","g","e","s",
                            ".","t","x","t">>

INIT_PY == <<"_","_","i","n","i","t","_","_",".","p","y">>

\* line 179
DATA_SUBDIRS == << <<"d","a","t","a">>, <<"h","e","a","d","e","r","s">>,
                   <<"p","u","r","e","l","i","b">>, <<"p","l","a","t","l","i","b">> >>

\* what line 198 writes
NAMESPACE_PACKAGE_INIT == <<"NAMESPACE_PACKAGE_INIT">>

\* what write_requirements writes
REQUIRES_CONTENT == <<"requires">>

-----------------------------------------------------------------------------
(* Wheel.tags and Wheel.is_compatible, lines 65-76                         *)

\* itertools.product of three lists, the last one varying fastest
Product(xs, ys, zs) ==
    [n \in 1..(Len(xs) * Len(ys) * Len(zs)) |->
        << xs[((n - 1) \div (Len(ys) * Len(zs))) + 1],
           ys[(((n - 1) \div Len(zs)) % Len(ys)) + 1],
           zs[((n - 1) % Len(zs)) + 1] >>]

\* tags, had abi been taken whole instead of split at its dots
tagsAbiUnsplit(w) == Product(Split(w.py_version, "."), <<w.abi>>, Split(w.platform, "."))

tags(w) == Product(Split(w.py_version, "."), Split(w.abi, "."), Split(w.platform, "."))

\* next((True for t in ts if t in supported), False)
RECURSIVE NextTrue(_, _)
NextTrue(ts, supported) ==
    IF ts = <<>> THEN FALSE
    ELSE IF Head(ts) \in supported THEN TRUE
    ELSE NextTrue(Tail(ts), supported)

is_compatible(w, supported) == NextTrue(tags(w), supported)

-----------------------------------------------------------------------------
(* Wheel.get_dist_info, lines 84-92                                        *)

\* packaging.utils.canonicalize_name: re.sub(r"[-_.]+", "-", name).lower()
RECURSIVE Canon(_, _)
Canon(s, inrun) ==
    IF s = <<>> THEN <<>>
    ELSE IF Head(s) \in {"-", "_", "."}
         THEN (IF inrun THEN <<>> ELSE <<"-">>) \o Canon(Tail(s), TRUE)
         ELSE <<LowerChar(Head(s))>> \o Canon(Tail(s), FALSE)

canonicalize_name(s) == Canon(s, FALSE)

\* lines 88-90
DistInfoMatch(dirname, project_name) ==
    /\ EndsWith(dirname, DIST_INFO_SUFFIX)
    /\ StartsWith(canonicalize_name(dirname), canonicalize_name(project_name))

RECURSIVE get_dist_info(_, _)
get_dist_info(namelist, project_name) ==
    IF namelist = <<>> THEN [found |-> FALSE, dirname |-> <<>>]
    ELSE IF DistInfoMatch(Dirname(Head(namelist)), project_name)
         THEN [found |-> TRUE, dirname |-> Dirname(Head(namelist))]
         ELSE get_dist_info(Tail(namelist), project_name)

-----------------------------------------------------------------------------
(* pkg_resources.parse_version and the order of versions                   *)

RECURSIVE ParseInt(_, _)
ParseInt(s, acc) ==
    IF s = <<>> THEN acc ELSE ParseInt(Tail(s), 10 * acc + DigitValue(Head(s)))

\* length of the run of digits s starts with
RECURSIVE DigitRun(_)
DigitRun(s) == IF s # <<>> /\ IsDigit(Head(s)) THEN 1 + DigitRun(Tail(s)) ELSE 0

Drop(s, n) == SubSeq(s, n + 1, Len(s))

\* N(.N)*: the release segment and what follows it
RECURSIVE ParseRelease(_, _)
ParseRelease(s, acc) ==
    LET n == DigitRun(s) IN
    IF n = 0 THEN [ok |-> FALSE, release |-> acc, rest |-> s]
    ELSE LET rel  == Append(acc, ParseInt(SubSeq(s, 1, n), 0))
             rest == Drop(s, n)
         IN IF Len(rest) >= 2 /\ rest[1] = "." /\ IsDigit(rest[2])
            THEN ParseRelease(Tail(rest), rel)
            ELSE [ok |-> TRUE, release |-> rel, rest |-> rest]

\* the tags of the one pre-, post- or development segment the model reads
SEGMENT_TAGS == << <<"d","e","v">>, <<"p","o","s","t">>, <<"r","c">>, <<"a">>, <<"b">> >>

NoSegment == [kind |-> <<>>, n |-> 0]

\* an optional separator, a tag, an optional number, and nothing after it
ParseSegment(s) ==
    LET t == IF s # <<>> /\ Head(s) \in {".", "-", "_"} THEN Tail(s) ELSE s
        hits == {i \in 1..Len(SEGMENT_TAGS) : StartsWith(t, SEGMENT_TAGS[i])}
    IN IF s = <<>> THEN [ok |-> TRUE, seg |-> NoSegment]
       ELSE IF hits = {} THEN [ok |-> FALSE, seg |-> NoSegment]
       ELSE LET tag  == SEGMENT_TAGS[CHOOSE i \in hits : TRUE]
                num  == Drop(t, Len(tag))
            IN IF DigitRun(num) # Len(num) THEN [ok |-> FALSE, seg |-> NoSegment]
               ELSE [ok |-> TRUE, seg |-> [kind |-> tag, n |-> ParseInt(num, 0)]]

RECURSIVE StripZeros(_)
StripZeros(r) ==
    IF r # <<>> /\ r[Len(r)] = 0 THEN StripZeros(SubSeq(r, 1, Len(r) - 1)) ELSE r

\* The comparison key of packaging.version: epoch, release without its trailing
\* zeros, then pre, post and dev with their infinities.  A string that is no
\* PEP 440 version is a LegacyVersion, epoch -1, below every Version.
\* pre: <<-1,0>> is -Infinity, <<3,0>> is Infinity; post: -1 is -Infinity;
\* dev: <<1,0>> is Infinity.
parse_version(s) ==
    LET r == ParseRelease(s, <<>>)
        g == IF r.ok THEN ParseSegment(r.rest) ELSE [ok |-> FALSE, seg |-> NoSegment]
        k == g.seg.kind
    IN IF ~r.ok \/ ~g.ok
       THEN [epoch |-> -1, release |-> <<>>, pre |-> <<3, 0>>, post |-> -1, dev |-> <<1, 0>>]
       ELSE [epoch   |-> 0,
             release |-> StripZeros(r.release),
             pre     |-> IF k = <<"a">> THEN <<0, g.seg.n>>
                         ELSE IF k = <<"b">> THEN <<1, g.seg.n>>
                         ELSE IF k = <<"r","c">> THEN <<2, g.seg.n>>
                         ELSE IF k = <<"d","e","v">> THEN <<-1, 0>>
                         ELSE <<3, 0>>,
             post    |-> IF k = <<"p","o","s","t">> THEN g.seg.n ELSE -1,
             dev     |-> IF k = <<"d","e","v">> THEN <<0, g.seg.n>> ELSE <<1, 0>>]

\* tuples of integers, compared as Python compares tuples
RECURSIVE TupleLess(_, _)
TupleLess(a, b) ==
    IF b = <<>> THEN FALSE
    ELSE IF a = <<>> THEN TRUE
    ELSE IF Head(a) = Head(b) THEN TupleLess(Tail(a), Tail(b))
    ELSE Head(a) < Head(b)

VersionLess(v, w) ==
    IF v.epoch # w.epoch THEN v.epoch < w.epoch
    ELSE IF v.release # w.release THEN TupleLess(v.release, w.release)
    ELSE TupleLess(v.pre \o <<v.post>> \o v.dev, w.pre \o <<w.post>> \o w.dev)

VersionLeq(v, w) == v = w \/ VersionLess(v, w)

V1_0 == <<"1", ".", "0">>

V2_0dev0 == <<"2", ".", "0", "d", "e", "v", "0">>

\* wheel_v1, had the upper bound of line 112 been inclusive
wheel_v1_inclusive(version) ==
    /\ VersionLeq(parse_version(V1_0), parse_version(version))
    /\ VersionLeq(parse_version(version), parse_version(V2_0dev0))

\* lines 111-113
wheel_v1(version) ==
    /\ VersionLeq(parse_version(V1_0), parse_version(version))
    /\ VersionLess(parse_version(version), parse_version(V2_0dev0))

-----------------------------------------------------------------------------
(* Requirement normalization, lines 127-141                                *)

\* str(req) of a packaging Requirement: name, specifier, then "; marker"
str_req(req) ==
    req.name \o req.specifier
        \o (IF req.marker = <<>> THEN <<>> ELSE <<";", " ">> \o req.marker)

\* lines 130-132
raw_req(req) == str_req([req EXCEPT !.marker = <<>>])

MapRawReq(reqs) == [i \in 1..Len(reqs) |-> raw_req(reqs[i])]

\* line 133
InstallRequires(d) == Sorted(MapRawReq(d.requires))

\* ExtraReqs, had the filter of line 138 been left out
ExtraReqsUnfiltered(reqs, base) == MapRawReq(reqs)

\* lines 136-138: the generator's filter
ExtraReqs(reqs, base) == SelectSeq(MapRawReq(reqs), LAMBDA r : r \notin Range(base))

\* lines 134-141
ExtrasRequire(d, base) == [extra \in d.extras |-> Sorted(ExtraReqs(d.by_extra[extra], base))]

-----------------------------------------------------------------------------
(* Wheel.install_as_egg and Wheel._install_as_egg, lines 94-198            *)

\* the destination_eggdir argument
Dest == <<"e">>

\* line 100
dist_basename(w) == w.project_name \o <<"-">> \o w.version

\* lines 102, 160
dist_data(w) == Join(Dest, dist_basename(w) \o DATA_SUFFIX)

\* line 142
egg_info == Join(Dest, EGG_INFO)

\* ZipFile.extractall: each member in turn, its parent directories made first
RECURSIVE Extractall(_, _, _)
Extractall(f, path, members) ==
    IF members = <<>> THEN Ok(f)
    ELSE LET target == Join(path, Head(members))
             up == IF Exists(f, Dirname(target)) THEN Ok(f) ELSE Makedirs(f, Dirname(target))
         IN IF ~up.ok THEN up
            ELSE LET w == WriteFile(up.fs, target, Head(members))
                 IN IF ~w.ok THEN w ELSE Extractall(w.fs, path, Tail(members))

\* MoveScripts, had the test for .pyc entries of lines 169-171 been left out
RECURSIVE MoveScriptsKeepPyc(_, _, _, _)
MoveScriptsKeepPyc(f, entries, from, to) ==
    IF entries = <<>> THEN Ok(f)
    ELSE LET r == Rename(f, Join(from, Head(entries)), Join(to, Head(entries)))
         IN IF ~r.ok THEN r ELSE MoveScriptsKeepPyc(r.fs, Tail(entries), from, to)

\* lines 166-175
RECURSIVE MoveScripts(_, _, _, _)
MoveScripts(f, entries, from, to) ==
    IF entries = <<>> THEN Ok(f)
    ELSE LET r == IF EndsWith(Head(entries), PYC_SUFFIX)
                  THEN Unlink(f, Join(from, Head(entries)))
                  ELSE Rename(f, Join(from, Head(entries)), Join(to, Head(entries)))
         IN IF ~r.ok THEN r ELSE MoveScripts(r.fs, Tail(entries), from, to)

\* os.listdir(d): files and directories alike
ListDir(f, d) == Orders({Basename(p) : p \in Children(f, d)})

\* lines 160-176
RelocateScripts(f, w, entries) ==
    LET dist_data_scripts == Join(dist_data(w), SCRIPTS)
        egg_info_scripts  == Join(egg_info, SCRIPTS)
    IN IF ~Exists(f, dist_data_scripts) THEN Ok(f)
       ELSE LET m == Mkdir(f, egg_info_scripts)
            IN IF ~m.ok THEN m
               ELSE IF IsFile(f, dist_data_scripts) THEN Fail(m.fs, "NotADirectoryError")
               ELSE LET mv == MoveScripts(m.fs, entries,
                                          dist_data_scripts, egg_info_scripts)
                    IN IF ~mv.ok THEN mv ELSE Rmdir(mv.fs, dist_data_scripts)

\* the words of namespace_packages.txt (fp.read().split())
NamespaceText == << <<"n">>, <<"n", ".", "s">> >>

RECURSIVE JoinAll(_, _)
JoinAll(base, parts) ==
    IF parts = <<>> THEN base ELSE JoinAll(Join(base, Head(parts)), Tail(parts))

\* lines 193-198
RECURSIVE FixMods(_, _)
FixMods(f, mods) ==
    IF mods = <<>> THEN Ok(f)
    ELSE LET mod_dir  == JoinAll(Dest, Split(Head(mods), "."))
             mod_init == Join(mod_dir, INIT_PY)
         IN IF Exists(f, mod_dir) /\ ~Exists(f, mod_init)
            THEN LET w == WriteFile(f, mod_init, NAMESPACE_PACKAGE_INIT)
                 IN IF ~w.ok THEN w ELSE FixMods(w.fs, Tail(mods))
            ELSE FixMods(f, Tail(mods))

\* lines 187-198
fix_namespace_packages(f) ==
    LET namespace_packages == Join(egg_info, NAMESPACE_PACKAGES_TXT)
    IN IF ~Exists(f, namespace_packages) THEN Ok(f)
       ELSE IF IsDir(f, namespace_packages) THEN Fail(f, "IsADirectoryError")
       ELSE FixMods(f, NamespaceText)

\* egg_info.write_requirements: the serializer writes the requirements file
write_requirements(f, filename) == WriteFile(f, filename, REQUIRES_CONTENT)

\* an exception leaves the with block when the call is inside one
Raise(e) == pc' = (IF zf = "open" THEN "raising" ELSE "failed") /\ err' = e

\* line 96: zipfile.ZipFile(self.filename); a file that is no archive raises
Open ==
    /\ pc = "start"
    /\ \/ zf' = "open" /\ opens' = opens + 1 /\ pc' = "get_dist_info" /\ err' = err
       \/ zf' = zf /\ opens' = opens /\ pc' = "failed" /\ err' = "BadZipFile"
    /\ UNCHANGED <<fs, fs0, self, archive, wheel_version, dist, dist_info,
                   install_requires, extras_require, scripts_listed, subdir_i,
                   supported_tags, result, src_dir, dst_dir, stack, visited>>

\* GetDistInfoStep, had the destination directory been made before discovery
GetDistInfoAfterMkdir ==
    /\ pc = "get_dist_info"
    /\ fs' = Mkdir(fs, Dest).fs
    /\ LET r == get_dist_info(archive, self.project_name)
       IN IF r.found
          THEN dist_info' = r.dirname /\ pc' = "validate" /\ err' = err
          ELSE dist_info' = dist_info /\ Raise("DistInfoNotFound")
    /\ UNCHANGED <<zf, opens, fs0, self, archive, wheel_version, dist,
                   install_requires, extras_require, scripts_listed, subdir_i,
                   supported_tags, result, src_dir, dst_dir, stack, visited>>

\* line 101
GetDistInfoStep ==
    /\ pc = "get_dist_info"
    /\ LET r == get_dist_info(archive, self.project_name)
       IN IF r.found
          THEN dist_info' = r.dirname /\ pc' = "validate" /\ err' = err
          ELSE dist_info' = dist_info /\ Raise("DistInfoNotFound")
    /\ UNCHANGED <<zf, opens, fs, fs0, self, archive, wheel_version, dist,
                   install_requires, extras_require, scripts_listed, subdir_i,
                   supported_tags, result, src_dir, dst_dir, stack, visited>>

\* ValidateStep, had the archive been extracted before the version check
ValidateAfterExtract ==
    /\ pc = "validate"
    /\ fs' = Extractall(Mkdir(fs, Dest).fs, Dest, archive).fs
    /\ IF Join(dist_info, WHEEL) \notin Range(archive) THEN Raise("KeyError")
       ELSE IF ~wheel_v1(wheel_version) THEN Raise("UnsupportedVersion")
       ELSE pc' = "mkdir" /\ err' = err
    /\ UNCHANGED <<zf, opens, fs0, self, archive, wheel_version, dist, dist_info,
                   install_requires, extras_require, scripts_listed, subdir_i,
                   supported_tags, result, src_dir, dst_dir, stack, visited>>

\* lines 104-116: read the WHEEL record, check the format version
ValidateStep ==
    /\ pc = "validate"
    /\ IF Join(dist_info, WHEEL) \notin Range(archive) THEN Raise("KeyError")
       ELSE IF ~wheel_v1(wheel_version) THEN Raise("UnsupportedVersion")
       ELSE pc' = "mkdir" /\ err' = err
    /\ UNCHANGED <<zf, opens, fs, fs0, self, archive, wheel_version, dist, dist_info,
                   install_requires, extras_require, scripts_listed, subdir_i,
                   supported_tags, result, src_dir, dst_dir, stack, visited>>

\* a filesystem step: on success go to next, on failure raise
FsStep(r, next) ==
    /\ fs' = r.fs
    /\ IF r.ok THEN pc' = next /\ err' = err ELSE Raise(r.err)

\* line 118
MkdirStep ==
    /\ pc = "mkdir"
    /\ FsStep(Mkdir(fs, Dest), "extract")
    /\ UNCHANGED <<zf, opens, fs0, self, archive, wheel_version, dist, dist_info,
                   install_requires, extras_require, scripts_listed, subdir_i,
                   supported_tags, result, src_dir, dst_dir, stack, visited>>

\* line 119
ExtractStep ==
    /\ pc = "extract"
    /\ FsStep(Extractall(fs, Dest, archive), "requires")
    /\ UNCHANGED <<zf, opens, fs0, self, archive, wheel_version, dist, dist_info,
                   install_requires, extras_require, scripts_listed, subdir_i,
                   supported_tags, result, src_dir, dst_dir, stack, visited>>

\* lines 121-141: the Distribution reads METADATA of the extracted directory
RequiresStep ==
    /\ pc = "requires"
    /\ IF ~IsFile(fs, Join(Join(Dest, dist_info), METADATA))
       THEN /\ Raise("FileNotFoundError")
            /\ UNCHANGED <<install_requires, extras_require>>
       ELSE /\ install_requires' = InstallRequires(dist)
            /\ extras_require' = ExtrasRequire(dist, InstallRequires(dist))
            /\ pc' = "rename" /\ err' = err
    /\ UNCHANGED <<zf, opens, fs, fs0, self, archive, wheel_version, dist, dist_info,
                   scripts_listed, subdir_i,
                   supported_tags, result, src_dir, dst_dir, stack, visited>>

\* lines 142-147
RenameMetadata(f, di) ==
    LET r == Rename(f, Join(Dest, di), egg_info)
    IN IF ~r.ok THEN r
       ELSE Rename(r.fs, Join(egg_info, METADATA), Join(egg_info, PKG_INFO))

RenameStep ==
    /\ pc = "rename"
    /\ FsStep(RenameMetadata(fs, dist_info), "write_requirements")
    /\ UNCHANGED <<zf, opens, fs0, self, archive, wheel_version, dist, dist_info,
                   install_requires, extras_require, scripts_listed, subdir_i,
                   supported_tags, result, src_dir, dst_dir, stack, visited>>

\* lines 148-158
WriteRequirementsStep ==
    /\ pc = "write_requirements"
    /\ FsStep(write_requirements(fs, Join(egg_info, REQUIRES_TXT)), "scripts")
    /\ UNCHANGED <<zf, opens, fs0, self, archive, wheel_version, dist, dist_info,
                   install_requires, extras_require, scripts_listed, subdir_i,
                   supported_tags, result, src_dir, dst_dir, stack, visited>>

\* lines 160-176
ScriptsStep ==
    /\ pc = "scripts"
    /\ \E entries \in ListDir(fs, Join(dist_data(self), SCRIPTS)) :
          /\ scripts_listed' = entries
          /\ FsStep(RelocateScripts(fs, self, entries), "unpack")
    /\ UNCHANGED <<zf, opens, fs0, self, archive, wheel_version, dist, dist_info,
                   install_requires, extras_require, subdir_i,
                   supported_tags, result, src_dir, dst_dir, stack, visited>>

\* lines 177-181, one turn of the loop: filter() is lazy, so os.path.exists is
\* asked when the turn starts; line 181 calls unpack(subdir, destination_eggdir)
UnpackLoop ==
    /\ pc = "unpack"
    /\ IF subdir_i > Len(DATA_SUBDIRS)
       THEN pc' = "rmdir_data" /\ UNCHANGED <<subdir_i, src_dir, dst_dir, stack>>
       ELSE IF Exists(fs, Join(dist_data(self), DATA_SUBDIRS[subdir_i]))
       THEN /\ src_dir' = Join(dist_data(self), DATA_SUBDIRS[subdir_i])
            /\ dst_dir' = Dest
            /\ stack' = <<src_dir'>>
            /\ pc' = "walk"
            /\ UNCHANGED subdir_i
       ELSE /\ subdir_i' = subdir_i + 1
            /\ UNCHANGED <<pc, src_dir, dst_dir, stack>>
    /\ UNCHANGED <<zf, opens, fs, fs0, self, archive, wheel_version, dist, dist_info, err,
                   install_requires, extras_require, scripts_listed,
                   supported_tags, result, visited>>

\* a direct call unpack(src_dir, dst_dir)
UnpackCall ==
    /\ pc = "call_unpack"
    /\ stack' = <<src_dir>>
    /\ pc' = "walk"
    /\ UNCHANGED <<zf, opens, fs, fs0, self, archive, wheel_version, dist, dist_info, err,
                   install_requires, extras_require, scripts_listed, subdir_i,
                   supported_tags, result, src_dir, dst_dir, visited>>

\* lines 35-48: one turn of the first loop.  A directory os.walk cannot list
\* any more is skipped; when nothing is left the cleanup walk starts.
WalkStep ==
    /\ pc = "walk"
    /\ IF stack = <<>>
       THEN /\ pc' = "cleanup" /\ stack' = <<src_dir>>
            /\ UNCHANGED <<fs, err, visited>>
       ELSE IF ~IsDir(fs, Head(stack))
       THEN /\ stack' = Tail(stack)
            /\ UNCHANGED <<pc, fs, err, visited>>
       ELSE \E filenames \in ListFiles(fs, Head(stack)), dirnames \in ListDirs(fs, Head(stack)) :
            LET w == WalkDir(fs, Head(stack), Join(dst_dir, Relpath(Head(stack), src_dir)),
                             filenames, dirnames)
            IN /\ fs' = w.fs
               /\ visited' = visited \cup {Head(stack)}
               /\ IF w.ok
                  THEN /\ stack' = Descend(Head(stack), w.kept) \o Tail(stack)
                       /\ UNCHANGED <<pc, err>>
                  ELSE /\ Raise(w.err)
                       /\ UNCHANGED stack
    /\ UNCHANGED <<zf, opens, fs0, self, archive, wheel_version, dist, dist_info,
                   install_requires, extras_require, scripts_listed, subdir_i,
                   supported_tags, result, src_dir, dst_dir>>

\* lines 50-52: one turn of the cleanup loop; when nothing is left unpack returns,
\* to line 177 or to its caller
CleanupStep ==
    /\ pc = "cleanup"
    /\ IF stack = <<>>
       THEN /\ pc' = IF zf = "open" THEN "unpack" ELSE "done"
            /\ subdir_i' = IF zf = "open" THEN subdir_i + 1 ELSE subdir_i
            /\ UNCHANGED <<fs, err, stack>>
       ELSE IF ~IsDir(fs, Head(stack))
       THEN /\ stack' = Tail(stack)
            /\ UNCHANGED <<pc, fs, err, subdir_i>>
       ELSE \E dirnames \in ListDirs(fs, Head(stack)) :
            LET r == CleanupDir(fs, Head(stack))
            IN /\ fs' = r.fs
               /\ UNCHANGED subdir_i
               /\ IF r.ok
                  THEN /\ stack' = Descend(Head(stack), dirnames) \o Tail(stack)
                       /\ UNCHANGED <<pc, err>>
                  ELSE /\ Raise(r.err)
                       /\ UNCHANGED stack
    /\ UNCHANGED <<zf, opens, fs0, self, archive, wheel_version, dist, dist_info,
                   install_requires, extras_require, scripts_listed,
                   supported_tags, result, src_dir, dst_dir, visited>>

\* lines 182-183
RemoveDataDir(f, w) == IF Exists(f, dist_data(w)) THEN Rmdir(f, dist_data(w)) ELSE Ok(f)

RmdirDataStep ==
    /\ pc = "rmdir_data"
    /\ FsStep(RemoveDataDir(fs, self), "fix_namespace")
    /\ UNCHANGED <<zf, opens, fs0, self, archive, wheel_version, dist, dist_info,
                   install_requires, extras_require, scripts_listed, subdir_i,
                   supported_tags, result, src_dir, dst_dir, stack, visited>>

\* line 184
FixNamespaceStep ==
    /\ pc = "fix_namespace"
    /\ FsStep(fix_namespace_packages(fs), "returning")
    /\ UNCHANGED <<zf, opens, fs0, self, archive, wheel_version, dist, dist_info,
                   install_requires, extras_require, scripts_listed, subdir_i,
                   supported_tags, result, src_dir, dst_dir, stack, visited>>

\* ExitWith, had zf.close() been called after the body instead of by a with block
ExitWithoutFinally ==
    /\ pc \in {"returning", "raising"}
    /\ zf' = IF pc = "returning" THEN "closed" ELSE zf
    /\ pc' = IF pc = "returning" THEN "done" ELSE "failed"
    /\ UNCHANGED <<opens, fs, fs0, self, archive, wheel_version, dist, dist_info, err,
                   install_requires, extras_require, scripts_listed, subdir_i,
                   supported_tags, result, src_dir, dst_dir, stack, visited>>

\* lines 96-97: leaving the with block, by return or by exception, closes zf
ExitWith ==
    /\ pc \in {"returning", "raising"}
    /\ zf' = "closed"
    /\ pc' = IF pc = "returning" THEN "done" ELSE "failed"
    /\ UNCHANGED <<opens, fs, fs0, self, archive, wheel_version, dist, dist_info, err,
                   install_requires, extras_require, scripts_listed, subdir_i,
                   supported_tags, result, src_dir, dst_dir, stack, visited>>

\* a direct call self.get_dist_info(zf), lines 84-92
CallGetDistInfo ==
    /\ pc = "call_get_dist_info"
    /\ LET r == get_dist_info(archive, self.project_name)
       IN IF r.found
          THEN result' = r.dirname /\ pc' = "done" /\ err' = err
          ELSE result' = result /\ Raise("DistInfoNotFound")
    /\ UNCHANGED <<zf, opens, fs, fs0, self, archive, wheel_version, dist, dist_info,
                   install_requires, extras_require, scripts_listed, subdir_i,
                   supported_tags, src_dir, dst_dir, stack, visited>>

\* a direct call self.is_compatible(), lines 73-76
CallIsCompatible ==
    /\ pc = "call_is_compatible"
    /\ result' = is_compatible(self, supported_tags)
    /\ pc' = "done"
    /\ UNCHANGED <<zf, opens, fs, fs0, self, archive, wheel_version, dist, dist_info, err,
                   install_requires, extras_require, scripts_listed, subdir_i,
                   supported_tags, src_dir, dst_dir, stack, visited>>

Next ==
    \/ Open
    \/ GetDistInfoStep
    \/ ValidateStep
    \/ MkdirStep
    \/ ExtractStep
    \/ RequiresStep
    \/ RenameStep
    \/ WriteRequirementsStep
    \/ ScriptsStep
    \/ UnpackLoop
    \/ WalkStep
    \/ CleanupStep
    \/ RmdirDataStep
    \/ FixNamespaceStep
    \/ ExitWith

-----------------------------------------------------------------------------
(* The calls the model makes                                               *)

\* how many payload members an archive holds besides its metadata members
MaxPayload == 3

\* the wheel f-1-py3-none-any.whl
WheelF == [project_name |-> <<"f">>, version |-> <<"1">>,
           py_version |-> <<"p","y","3">>, abi |-> <<"n","o","n","e">>,
           platform |-> <<"a","n","y">>]

DI == dist_basename(WheelF) \o DIST_INFO_SUFFIX

DD == dist_basename(WheelF) \o DATA_SUFFIX

P2(a, b) == Join(a, b)

P3(a, b, c) == Join(Join(a, b), c)

P4(a, b, c, d) == Join(Join(Join(a, b), c), d)

P5(a, b, c, d, e) == Join(Join(Join(Join(a, b), c), d), e)

PURELIB == DATA_SUBDIRS[3]

\* the metadata members of the archives tried: complete, without WHEEL, without
\* METADATA, none, with namespace_packages.txt, with a scripts directory of its
\* own, and with a second .dist-info directory listed first inside purelib
MetaChoices ==
    << << P2(DI, METADATA), P2(DI, WHEEL) >>,
       << P2(DI, METADATA) >>,
       << P2(DI, WHEEL) >>,
       << >>,
       << P2(DI, METADATA), P2(DI, WHEEL), P2(DI, NAMESPACE_PACKAGES_TXT) >>,
       << P2(DI, METADATA), P2(DI, WHEEL), P3(DI, SCRIPTS, <<"s">>) >>,
       << P4(DD, PURELIB, DI, WHEEL), P4(DD, PURELIB, DI, METADATA),
          P2(DI, METADATA), P2(DI, WHEEL) >> >>

\* the payload members the archives are drawn from
PayloadChoices ==
    << P2(<<"n">>, <<"m">>),
       P3(DD, SCRIPTS, <<"r","u","n">>),
       P3(DD, SCRIPTS, <<"r","u","n">> \o PYC_SUFFIX),
       P4(DD, PURELIB, <<"n">>, <<"k">>),
       P3(DD, DATA_SUBDIRS[1], <<"x">>),
       P4(DD, PURELIB, DI, <<"y">>),
       P5(DD, PURELIB, DD, PURELIB, <<"z">>),
       P2(DD, <<"o">>),
       <<"n">>,
       P3(DD, DATA_SUBDIRS[2], <<"h">>) >>

\* the members of xs whose index is in S, in the order of xs
Pick(xs, S) == SelectSeq([i \in 1..Len(xs) |-> IF i \in S THEN <<xs[i]>> ELSE <<>>],
                         LAMBDA x : x # <<>>)

Flatten(xss) == [i \in 1..Len(xss) |-> xss[i][1]]

Archives ==
    {MetaChoices[m] \o Flatten(Pick(PayloadChoices, S)) :
        m \in 1..Len(MetaChoices),
        S \in {T \in SUBSET (1..Len(PayloadChoices)) : Cardinality(T) <= MaxPayload}}

Req(name, specifier, marker) == [name |-> name, specifier |-> specifier, marker |-> marker]

ReqA == Req(<<"a">>, <<">", "=", "1">>, <<>>)

ReqAm == Req(<<"a">>, <<">", "=", "1">>, <<"m">>)

ReqB == Req(<<"b">>, <<>>, <<>>)

ReqBm == Req(<<"b">>, <<>>, <<"m">>)

\* a distribution that requires b and a>=1, and a>=1, c and b for its extra
DistSmall == [requires |-> <<ReqB, ReqAm>>,
              extras   |-> {"test"},
              by_extra |-> [e \in {"test"} |-> <<ReqA, Req(<<"c">>, <<>>, <<"m">>), ReqBm>>]]

NoCall ==
    /\ zf = "unopened" /\ opens = 0 /\ err = ""
    /\ dist_info = <<>> /\ install_requires = <<>> /\ extras_require = <<>>
    /\ scripts_listed = <<>> /\ subdir_i = 1 /\ result = "none" /\ visited = {}

NoUnpack == src_dir = <<>> /\ dst_dir = <<>> /\ stack = <<>>

NoTags == supported_tags = {}

\* the destination directory is absent, or is there already
Init ==
    /\ pc = "start"
    /\ NoCall /\ NoUnpack /\ NoTags
    /\ self = WheelF
    /\ archive \in Archives
    /\ wheel_version \in {V1_0, <<"2", ".", "0">>}
    /\ dist = DistSmall
    /\ fs0 \in {EmptyFS, [dirs |-> {Dest}, files |-> <<>>]}
    /\ fs = fs0


-----------------------------------------------------------------------------
(* install_as_egg on archives of many shapes                               *)

Spec == Init /\ [][Next]_vars

-----------------------------------------------------------------------------
(* install_as_egg on a well-formed archive, for many Wheel-Version values  *)

\* an archive with a package, a script and a purelib payload for that package
WellFormed ==
    MetaChoices[5] \o << PayloadChoices[1], PayloadChoices[2], PayloadChoices[4] >>

\* how many numbers a release segment holds
MaxRelease == 2

ReleaseNumbers == { <<"0">>, <<"1">>, <<"2">>, <<"9">>, <<"1", "0">> }

VersionSuffixes ==
    { <<>>, <<"d","e","v","0">>, <<".","d","e","v","0">>, <<"a","1">>, <<"b","2">>,
      <<"r","c","1">>, <<".","p","o","s","t","1">> }

RECURSIVE Releases(_)
Releases(n) ==
    IF n = 1 THEN ReleaseNumbers
    ELSE LET shorter == Releases(n - 1)
         IN shorter \cup {r \o <<".">> \o c : r \in {t \in shorter : Len(Split(t, ".")) = n - 1},
                                             c \in ReleaseNumbers}

VersionStrings ==
    {r \o x : r \in Releases(MaxRelease), x \in VersionSuffixes}
        \cup { <<"j","u","n","k">>, <<"2", ".", "0", "-", "1">>, <<"0","1",".","0">> }

InitVersion ==
    /\ pc = "start"
    /\ NoCall /\ NoUnpack /\ NoTags
    /\ self = WheelF
    /\ archive = WellFormed
    /\ wheel_version \in VersionStrings
    /\ dist = DistSmall
    /\ fs0 = EmptyFS
    /\ fs = fs0

SpecVersion == InitVersion /\ [][Next]_vars

-----------------------------------------------------------------------------
(* install_as_egg on a well-formed archive, for many requirement lists     *)

\* how many requirements the distribution and each extra declare
MaxReqs == 2

Reqs == {ReqA, ReqAm, ReqB, ReqBm}

RECURSIVE SeqsUpTo(_, _)
SeqsUpTo(S, n) ==
    IF n = 0 THEN { <<>> }
    ELSE LET shorter == SeqsUpTo(S, n - 1)
         IN shorter \cup {Append(q, x) : q \in {t \in shorter : Len(t) = n - 1}, x \in S}

Dists ==
    {[requires |-> b, extras |-> {"test"}, by_extra |-> [e \in {"test"} |-> x]] :
        b \in SeqsUpTo(Reqs, MaxReqs), x \in SeqsUpTo(Reqs, MaxReqs)}
    \cup {[requires |-> b, extras |-> {}, by_extra |-> <<>>] : b \in SeqsUpTo(Reqs, MaxReqs)}

InitRequires ==
    /\ pc = "start"
    /\ NoCall /\ NoUnpack /\ NoTags
    /\ self = WheelF
    /\ archive = WellFormed
    /\ wheel_version = V1_0
    /\ dist \in Dists
    /\ fs0 = EmptyFS
    /\ fs = fs0

SpecRequires == InitRequires /\ [][Next]_vars

-----------------------------------------------------------------------------
(* get_dist_info on many member lists                                      *)

\* how many members a member list holds
MaxNames == 3

FX == <<"f", "-", "x", "-", "1">>

MemberChoices ==
    { P2(<<"F", "_", "X", "-", "1">> \o DIST_INFO_SUFFIX, METADATA),
      P2(FX \o DIST_INFO_SUFFIX, WHEEL),
      P2(<<"g", "-", "1">> \o DIST_INFO_SUFFIX, METADATA),
      P4(FX \o DATA_SUFFIX, PURELIB, <<"f", ".", "x", "-", "1">> \o DIST_INFO_SUFFIX, <<"m">>),
      P2(<<"f", "_", "_", "x">>, <<"m">>),
      <<"f", "-", "x">> \o DIST_INFO_SUFFIX,
      P2(<<"f", "x", "-", "1">> \o DIST_INFO_SUFFIX, METADATA) }

ProjectNames == { <<"f", ".", "x">>, <<"F", "_", "x">>, <<"g">> }

NoRepeat(xs) == \A i, j \in 1..Len(xs) : xs[i] = xs[j] => i = j

InitDistInfo ==
    /\ pc = "call_get_dist_info"
    /\ NoCall /\ NoUnpack /\ NoTags
    /\ fs0 = EmptyFS /\ fs = fs0
    /\ wheel_version = V1_0 /\ dist = DistSmall
    /\ archive \in {n \in SeqsUpTo(MemberChoices, MaxNames) : NoRepeat(n)}
    /\ \E name \in ProjectNames : self = [WheelF EXCEPT !.project_name = name]

NextDistInfo == CallGetDistInfo

SpecDistInfo == InitDistInfo /\ [][NextDistInfo]_vars

-----------------------------------------------------------------------------
(* is_compatible on many tag strings and supported-tag sets                *)

\* how long the py_version tag string is
MaxTagLen == 3

RECURSIVE StringsOver(_, _)
StringsOver(S, n) ==
    IF n = 1 THEN { <<c>> : c \in S }
    ELSE LET shorter == StringsOver(S, n - 1)
         IN shorter \cup {Append(q, c) : q \in {t \in shorter : Len(t) = n - 1}, c \in S}

AbiStrings == { <<"n">>, <<"c">>, <<"n", ".", "c">>, <<"c", ".", "n">> }

PlatformStrings == { <<"a">>, <<"l">>, <<"l", ".", "a">> }

SupportedChoices ==
    SUBSET { << <<"3">>, <<"n">>, <<"a">> >>, << <<"2">>, <<"c">>, <<"l">> >>,
             << <<"3">>, <<"c">>, <<"a">> >>, << <<>>, <<"n">>, <<"a">> >> }

InitTags ==
    /\ pc = "call_is_compatible"
    /\ NoCall /\ NoUnpack
    /\ fs0 = EmptyFS /\ fs = fs0
    /\ wheel_version = V1_0 /\ dist = DistSmall /\ archive = <<>>
    /\ \E py \in StringsOver({"2", "3", "."}, MaxTagLen), abi \in AbiStrings,
          platform \in PlatformStrings :
          self = [WheelF EXCEPT !.py_version = py, !.abi = abi, !.platform = platform]
    /\ supported_tags \in SupportedChoices

NextTags == CallIsCompatible

SpecTags == InitTags /\ [][NextTags]_vars

-----------------------------------------------------------------------------
(* unpack on many source and destination trees                             *)

\* how many files the source tree and the destination tree each hold
MaxFiles == 2

\* the relative paths the trees are built from
TreePaths ==
    { <<"x">>, <<"s">>, P2(<<"s">>, <<"x">>), P2(<<"s">>, <<"s">>),
      P2(<<"x">>, <<"x">>), P2(<<"x">>, <<"s">>) }

\* a tree: files, and directories that hold nothing; no path is both a file and
\* a directory
Trees ==
    {t \in [files : {F \in SUBSET TreePaths : Cardinality(F) <= MaxFiles},
            empties : { {}, {<<"x">>}, {<<"s">>} }] :
        /\ \A p \in t.files, q \in t.files \cup t.empties : ~Under(q, p)
        /\ \A p \in t.files, q \in t.empties : p # q /\ ~Under(p, q)}

\* the tree t placed at root, each file holding its own first path
Place(t, root) ==
    LET fpaths == {Join(root, p) : p \in t.files}
        dpaths == {Join(root, p) : p \in t.empties}
    IN [dirs  |-> {root} \cup dpaths \cup UNION {Ancestors(p) : p \in fpaths \cup dpaths},
        files |-> [p \in fpaths |-> p]]

Merge(f, g) ==
    [dirs  |-> f.dirs \cup g.dirs,
     files |-> [p \in Files(f) \cup Files(g) |-> IF p \in Files(f) THEN f.files[p] ELSE g.files[p]]]

\* the source tree beside the destination tree, or inside it as line 181 has it
InitUnpack ==
    /\ pc = "call_unpack"
    /\ NoCall /\ NoTags
    /\ wheel_version = V1_0 /\ dist = DistSmall /\ archive = <<>> /\ self = WheelF
    /\ stack = <<>>
    /\ dst_dir = <<"t">>
    /\ src_dir \in { <<"s">>, P2(<<"t">>, <<"s">>) }
    /\ \E st \in Trees, dt \in Trees :
          /\ \A p \in dt.files \cup dt.empties : ~AtOrUnder(Join(dst_dir, p), src_dir)
          /\ fs0 = Merge(Place(st, src_dir), Place(dt, dst_dir))
    /\ fs = fs0

NextUnpack == UnpackCall \/ WalkStep \/ CleanupStep

SpecUnpack == InitUnpack /\ [][NextUnpack]_vars

-----------------------------------------------------------------------------
(* Properties of install_as_egg                                            *)

Terminal == pc \in {"done", "failed"}

\* the call ended with the error of discovery (line 92) or of validation
\* (line 105, lines 114-116)
EarlyFailure ==
    pc = "failed" /\ err \in {"DistInfoNotFound", "KeyError", "UnsupportedVersion"}

\* the archive members that are files at their place under the destination
ExtractedMembers == {i \in 1..Len(archive) : IsFile(fs, Join(Dest, archive[i]))}

\* C1: when get_dist_info or the format-version validation fails, the error is
\* raised before anything is extracted: while these two steps run and in the
\* error state they end in, no member of the archive is a file under the
\* destination directory
C1_NoExtractionBeforeValidation ==
    (pc \in {"get_dist_info", "validate"} \/ err \in {"DistInfoNotFound", "KeyError",
                                                     "UnsupportedVersion"})
        => ExtractedMembers = {}

\* C1 witness: an archive with members was refused for its version, and none of
\* its members was extracted
C1_Witness ==
    /\ EarlyFailure /\ err = "UnsupportedVersion"
    /\ Len(archive) > 2
    /\ ExtractedMembers = {}

\* C2 as the claim states it: when discovery or validation fails, the destination
\* directory has already been created and is left in place
C2_Original == EarlyFailure => IsDir(fs, Dest)

\* C2, amended: creating the destination directory is the first filesystem
\* mutation of an install call, and it follows discovery and validation: the
\* first change of the filesystem is the mkdir of line 118, taken after both
\* have passed, and when either fails the filesystem is as the call found it,
\* the destination directory not created
C2_MkdirFollowsValidation ==
    /\ [][(fs = fs0 /\ fs' # fs) =>
             /\ pc = "mkdir" /\ dist_info # <<>> /\ wheel_v1(wheel_version)
             /\ fs' = [fs EXCEPT !.dirs = @ \cup {Dest}]]_vars
    /\ [](EarlyFailure => fs = fs0)

\* C2 witness: validation failed and no destination directory exists
C2_Witness ==
    /\ EarlyFailure /\ err \in {"KeyError", "UnsupportedVersion"}
    /\ fs0 = EmptyFS /\ ~Exists(fs, Dest)

\* C8: the archive is opened at most once per call, and in every terminal state,
\* after a normal return or a failure at any step, the handle is closed (a file
\* that could not be opened at all leaves no handle)
C8_HandleClosed ==
    /\ opens <= 1
    /\ Terminal => /\ zf # "open"
                   /\ opens = (IF err = "BadZipFile" THEN 0 ELSE 1)
                   /\ (opens = 1 => zf = "closed")

\* C8 witness: the call failed after extraction, in the relocation of the data
\* directories, and the handle is closed
C8_Witness ==
    /\ pc = "failed" /\ visited # {} /\ fs # fs0
    /\ zf = "closed"

\* C5 as the claim states it: after a call that completes without error the
\* destination holds EGG-INFO/PKG-INFO and EGG-INFO/requires.txt, and holds
\* neither the data directory nor a directory with the name of the original
\* .dist-info directory
C5_Original ==
    pc = "done" =>
        /\ IsFile(fs, Join(egg_info, PKG_INFO))
        /\ IsFile(fs, Join(egg_info, REQUIRES_TXT))
        /\ ~Exists(fs, dist_data(self))
        /\ ~IsDir(fs, Join(Dest, dist_info))

\* the archive member a scripts entry was extracted from; a file's content
\* tells which member it is
ScriptMember(name) == Join(Join(dist_basename(self) \o DATA_SUFFIX, SCRIPTS), name)

HoldsMember(f, m) == \E q \in Files(f) : f.files[q] = m

\* C7: when the data directory held a scripts subdirectory, after a successful
\* install no entry of it whose name ends in .pyc is anywhere in the tree, every
\* other entry is under EGG-INFO/scripts with the same name, and the source
\* scripts directory is gone
C7_ScriptsRelocated ==
    (pc = "done" /\ scripts_listed # <<>>) =>
        /\ \A i \in 1..Len(scripts_listed) :
              LET name == scripts_listed[i] IN
              IF EndsWith(name, PYC_SUFFIX)
              THEN /\ ~HoldsMember(fs, ScriptMember(name))
                   /\ ~Exists(fs, Join(Join(egg_info, SCRIPTS), name))
              ELSE /\ IsFile(fs, Join(Join(egg_info, SCRIPTS), name))
                   /\ fs.files[Join(Join(egg_info, SCRIPTS), name)] = ScriptMember(name)
        /\ ~Exists(fs, Join(dist_data(self), SCRIPTS))

\* C7 witness: an install with a script and a compiled script has completed
C7_Witness ==
    /\ pc = "done"
    /\ \E i, j \in 1..Len(scripts_listed) :
          /\ EndsWith(scripts_listed[i], PYC_SUFFIX)
          /\ ~EndsWith(scripts_listed[j], PYC_SUFFIX)

-----------------------------------------------------------------------------
(* Properties of the format-version validation                             *)

\* validation has run: discovery found a directory and line 116 is behind
Validated == dist_info # <<>> /\ pc # "validate"

Rejected == err = "UnsupportedVersion"

\* C3: validation accepts the declared Wheel-Version v if and only if
\* 1.0 <= v < 2.0dev0 in the order of versions, and rejects every other one
\* with an error; 1.0 and 1.9 are accepted, 0.9, 2.0dev0 and 2.0 are rejected,
\* and every accepted version has major number 1
C3_VersionRange ==
    Validated =>
        /\ ~Rejected <=> /\ VersionLeq(parse_version(<<"1", ".", "0">>),
                                       parse_version(wheel_version))
                         /\ VersionLess(parse_version(wheel_version),
                                        parse_version(<<"2", ".", "0", "d", "e", "v", "0">>))
        /\ wheel_version \in { <<"1", ".", "0">>, <<"1", ".", "9">> } => ~Rejected
        /\ wheel_version \in { <<"0", ".", "9">>, <<"2", ".", "0">>,
                               <<"2", ".", "0", "d", "e", "v", "0">> } => Rejected
        /\ ~Rejected => Head(parse_version(wheel_version).release) = 1
        /\ Rejected => pc \in {"raising", "failed"} /\ fs = fs0

\* C3 witness: a wheel of format version 1.9 was installed
C3_Witness == pc = "done" /\ wheel_version = <<"1", ".", "9">>

-----------------------------------------------------------------------------
(* Properties of is_compatible                                             *)

\* some triple of the cross-product of the split tag strings is supported
Intersects(w, supported) ==
    LET py == Split(w.py_version, ".")
        abi == Split(w.abi, ".")
        plat == Split(w.platform, ".")
    IN \E i \in 1..Len(py), j \in 1..Len(abi), k \in 1..Len(plat) :
          <<py[i], abi[j], plat[k]>> \in supported

\* C4: for every wheel and every supported-tag set, is_compatible returns true
\* if and only if some triple of py_version.split('.') x abi.split('.') x
\* platform.split('.') is in the supported-tag set, and the call changes
\* neither the wheel nor the tag set nor anything else
C4_CompatibleIffIntersects ==
    /\ [](pc = "done" => result = Intersects(self, supported_tags))
    /\ [][pc = "call_is_compatible" =>
             /\ self' = self /\ supported_tags' = supported_tags
             /\ fs' = fs /\ archive' = archive /\ zf' = zf]_vars

\* C4 witness: the wheel is compatible through a triple that is not the first
\* of the cross-product, its abi tag a compound one
C4_Witness ==
    /\ pc = "done" /\ result = TRUE
    /\ Len(Split(self.abi, ".")) > 1
    /\ tags(self)[1] \notin supported_tags

-----------------------------------------------------------------------------
(* Properties of the requirement normalization                             *)

RequirementsDerived ==
    pc \in {"rename", "write_requirements", "scripts", "unpack", "walk", "cleanup",
            "rmdir_data", "fix_namespace", "returning", "done"}

IsSorted(xs) == \A i \in 1..(Len(xs) - 1) : xs[i] = xs[i + 1] \/ StrLess(xs[i], xs[i + 1])

\* a requirement as declared, rendered without its marker
Bare(req) == req.name \o req.specifier

\* C6: for every declared extra, the extra's list holds no string that is in the
\* base list; the base list and every extra's list are sorted; every rendered
\* string is a declared requirement without its environment marker; and base
\* ["a>=1"] with extra requirements ["a>=1", "b"] gives the extra list ["b"]
C6_RequirementsNormalized ==
    RequirementsDerived =>
        /\ DOMAIN extras_require = dist.extras
        /\ IsSorted(install_requires)
        /\ Range(install_requires) = {Bare(dist.requires[i]) : i \in 1..Len(dist.requires)}
        /\ \A r \in Range(install_requires) : ";" \notin Range(r)
        /\ \A extra \in dist.extras :
              /\ IsSorted(extras_require[extra])
              /\ Range(extras_require[extra]) \cap Range(install_requires) = {}
              /\ Range(extras_require[extra]) =
                    {Bare(dist.by_extra[extra][i]) : i \in 1..Len(dist.by_extra[extra])}
                        \ Range(install_requires)
              /\ \A r \in Range(extras_require[extra]) : ";" \notin Range(r)
              /\ (dist.requires = <<ReqA>> /\ dist.by_extra[extra] = <<ReqA, ReqB>>)
                    => extras_require[extra] = << <<"b">> >>

\* C6 witness: an install has completed whose extra declared, with a marker, a
\* requirement of the base list besides one of its own
C6_Witness ==
    /\ pc = "done"
    /\ Len(install_requires) = 2
    /\ \E extra \in dist.extras :
          /\ Len(dist.by_extra[extra]) = 2 /\ Len(extras_require[extra]) = 1
          /\ \E i \in 1..2 : dist.by_extra[extra][i].marker # <<>>
                              /\ Bare(dist.by_extra[extra][i]) \in Range(install_requires)

-----------------------------------------------------------------------------
(* Properties of unpack                                                    *)

\* the files the source tree held when unpack was called
SourceFiles == {p \in Files(fs0) : Under(p, src_dir)}

\* where unpack is to put the source path p
Target(p) == Join(dst_dir, Relpath(p, src_dir))

\* the files the destination held beside the source tree, at paths no source
\* file is moved to
Bystanders ==
    {q \in Files(fs0) : /\ Under(q, dst_dir) /\ ~Under(q, src_dir)
                        /\ \A p \in SourceFiles : q # Target(p)}

\* the merge of C9: once unpack has completed, every file that was at relative
\* path p under src_dir is at dst_dir/p, src_dir is gone, and every file of the
\* destination at a path no moved file took is there unchanged; a source
\* subdirectory is descended into only if its destination path exists
MergedIntoDestination ==
    /\ \A d \in visited : d # src_dir => Exists(fs0, Target(d)) \/ Exists(fs, Target(d))
    /\ pc = "done" =>
          /\ \A p \in SourceFiles : IsFile(fs, Target(p)) /\ fs.files[Target(p)] = fs0.files[p]
          /\ ~Exists(fs, src_dir)
          /\ \A q \in Bystanders : IsFile(fs, q) /\ fs.files[q] = fs0.files[q]

\* C9 as the claim states it: unpack merges the source tree into the destination
\* as MergedIntoDestination says, and the cleanup pass never finds a file left
\* under src_dir: its assertion 'not filenames' never fails
C9_Original == MergedIntoDestination /\ err # "AssertionError"

-----------------------------------------------------------------------------
(* Properties of get_dist_info                                             *)

TopLevel(dirname) == dirname # <<>> /\ SEP \notin Range(dirname)

\* the members whose directory is a top-level .dist-info directory of the project
Matching ==
    {i \in 1..Len(archive) :
        LET dirname == Dirname(archive[i]) IN
        /\ TopLevel(dirname)
        /\ EndsWith(dirname, DIST_INFO_SUFFIX)
        /\ StartsWith(canonicalize_name(dirname), canonicalize_name(self.project_name))}

\* C10 as the claim states it: get_dist_info returns the directory of the first
\* member, in listing order, whose directory is a top-level directory ending in
\* .dist-info with a canonicalized name that starts with the canonicalized
\* project name, whatever matches later; when no member matches it fails with
\* an error and returns no directory
C10_Original ==
    Terminal =>
        IF Matching # {}
        THEN /\ pc = "done"
             /\ result = Dirname(archive[CHOOSE i \in Matching : \A j \in Matching : i <= j])
        ELSE pc = "failed" /\ err = "DistInfoNotFound" /\ result = "none"

====
